---- MODULE Spec2Model ----
\* Rolling-action orchestrator of python_salt_api_demo.py: the connectivity
\* gate, the per-minion retry loop of main(), the action handlers and the
\* reboot poller, as a sequential state machine over the replies of the Salt
\* client (the external executor), which are chosen nondeterministically.
EXTENDS Integers, Sequences, FiniteSets, TLC

\* ---------------------------------------------------------------- bounds
\* Longest minion list of a run.
MaxNodes == 2
\* Most polls of one restart_host call that answer with an uptime that is
\* not smaller than the baseline.
MaxNotYet == 2
\* Most states of one state-run payload.
MaxStates == 2

\* ------------------------------------------------------ program constants
\* tries = 3 in main()
MainTries == 3
\* tries = 3 in restart_service()
ServiceTries == 3
\* timeout = 300 in restart_host()
RebootTimeout == 300
\* period = 10 in restart_host()
RebootPeriod == 10

\* ------------------------------------------------------------ input sets
\* choices= of the --action argument
Actions == {"update_configs", "reboot_host", "update_system"}

\* 'seconds' values a status.uptime reply may carry
Uptimes == {50, 1200, 1205}

\* State ids that may occur in a state-run payload
StateIds == 1..MaxStates

\* The value stored for one state of a state-run payload: its 'result' entry
\* and the entry under SALT_RETURN_KEY, each possibly absent.
StateValues == [result : {"True", "False", "None", "Absent"},
                retkey : {"True", "Absent"}]

\* ret_data[minion][SALT_RETURN_KEY] of a state run: a list (the run did not
\* compile) or a mapping from state id to its values.
Payloads ==
    {[shape |-> "list", states |-> <<>>]} \cup
    {[shape |-> "dict", states |-> f] :
        f \in UNION {[S -> StateValues] : S \in SUBSET StateIds}}

\* Reply of the direct status.uptime query made through do_salt_call:
\* data = FALSE stands for an empty SALT_RETURN_KEY entry.
BaselineReplies ==
    {[data |-> FALSE, seconds |-> 0]} \cup
    {[data |-> TRUE, seconds |-> s] : s \in Uptimes}

\* output[node] of one status.uptime poll: resp = FALSE is the value False
\* the client stores for a minion that did not return; otherwise the full
\* return with its retcode and the uptime in seconds.
FalseOutput == [resp |-> FALSE, retcode |-> 0, seconds |-> 0]

PollOutputs ==
    {FalseOutput} \cup
    {[resp |-> TRUE, retcode |-> rc, seconds |-> s] : rc \in {0, 1}, s \in Uptimes}

VARIABLES
    options,              \* parsed command line: action, reboot, use_ssh, test,
                          \* and whether -n gave options.minions (else None)
    is_root,              \* os.getuid() == 0
    minions,              \* options.minions.split(','); <<>> when there is
                          \* nothing to split
    pc,                   \* position of the script
    exitStatus,           \* process exit status; -1 while the script runs
    pingRet,              \* reply of test.ping per minion; <<>> before the ping
    all_nodes_up,         \* result of ping_all_nodes
    idx,                  \* position in minions of the minion being worked on
    tries,                \* main(): retries left for the current minion
    rsTries,              \* restart_service(): tries
    timeout,              \* restart_host(): timeout
    uptime_before_reboot, \* restart_host(): baseline
    output,               \* restart_host(): output[node] of the last poll
    rhResult,             \* how the last restart_host call of this attempt ended
    polls,                \* polls made by the current restart_host call
    notYet,               \* of these, polls that answered "not rebooted yet"
    invocations,          \* per minion: handler attempts started
    restarts,             \* per minion: service.restart commands sent
    reboots,              \* per minion: system.reboot commands sent
    cmds,                 \* per minion: the commands sent so far
    execOk,               \* current minion: per attempt, did every client call succeed
    run_status,           \* what the last check_salt_run_status call returned
    ret_data,             \* check_salt_run_status studied alone: its argument
    failed_state,         \* and the state its error log names; 0 for none
    done                  \* minions whose handler finished (success = True)

vars == <<options, is_root, minions, pc, exitStatus, pingRet, all_nodes_up, idx, tries,
          rsTries, timeout, uptime_before_reboot, output, rhResult, polls,
          notYet, invocations, restarts, reboots, cmds, execOk, run_status,
          ret_data, failed_state, done>>

NodeIds == 1..MaxNodes

\* -------------------------------------------------------- pure functions

\* salt.utils.check_state_result as bound to state_checker: a payload that is
\* not a non-empty mapping fails, and so does one with a state whose result
\* is False.
state_checker(payload) ==
    /\ payload.shape = "dict"
    /\ DOMAIN payload.states # {}
    /\ \A s \in DOMAIN payload.states : payload.states[s].result # "False"

\* The per-state test of check_salt_run_status:
\* values.get(SALT_RETURN_KEY, None) is not True
StateJudgedFailed(values) == values.retkey # "True"

\* check_salt_run_status: the states its second loop may stop at. The loop
\* stops at the first state, in the iteration order of the dict, that its
\* test judges failed; that order is not fixed by the program.
FailedStates(payload) ==
    {s \in DOMAIN payload.states : StateJudgedFailed(payload.states[s])}

\* check_salt_run_status for the return data of a single minion
check_salt_run_status_nolist(payload) ==
    IF state_checker(payload) THEN TRUE
    ELSE IF FailedStates(payload) # {} THEN FALSE
    ELSE TRUE

check_salt_run_status_noshortcut(payload) ==
    IF payload.shape = "list" THEN FALSE
    ELSE IF FailedStates(payload) # {} THEN FALSE
    ELSE TRUE

check_salt_run_status_strict(payload) ==
    IF state_checker(payload) THEN TRUE
    ELSE FALSE

check_salt_run_status(payload) ==
    IF state_checker(payload) THEN TRUE
    ELSE IF payload.shape = "list" THEN FALSE
    ELSE IF FailedStates(payload) # {} THEN FALSE
    ELSE TRUE

\* check_salt_run_status: the state named by "A Salt state on minion ...
\* failed"; 0 when the function returns without that log line
NamedStates(payload) ==
    IF ~state_checker(payload) /\ payload.shape = "dict" /\ FailedStates(payload) # {}
    THEN FailedStates(payload)
    ELSE {0}

Verdict(b) == IF b THEN "True" ELSE "False"

\* ping_all_nodes: the minions whose test.ping value equals False
failed_minions_first(ret) ==
    {i \in DOMAIN ret : ret[i] = FALSE /\ \A j \in DOMAIN ret : ret[j] = FALSE => i <= j}

failed_minions(ret) == {i \in DOMAIN ret : ret[i] = FALSE}

ping_all_nodes(ret) ==
    [ok |-> failed_minions(ret) = {}, failed |-> failed_minions(ret)]

\* restart_host: the poll counts as "no response"
NoResponse(use_ssh, out) ==
    \/ use_ssh /\ out.retcode # 0
    \/ ~out.resp

\* restart_host: timeout -= period
Tick_one(t) == t - 1

Tick(t) == t - RebootPeriod

\* restart_host: the uptime comparison that confirms the reboot
Rebooted_le(current_uptime, baseline) == current_uptime <= baseline

Rebooted(current_uptime, baseline) == current_uptime < baseline

\* main(): "if not all_nodes_up == True" closes the gate
GateOpen_truthy(r) == TRUE

GateOpen(r) == r.ok

\* main(): "if tries == 0" in the except clause of the retry loop
Exhausted_negative(t) == t < 0

Exhausted(t) == t = 0

\* main(): which except clause receives an exception raised by the handler.
\* The update_configs branch has its own try/except inside the retry loop.
Catch_outer(action) == "except"

Catch(action) ==
    IF action = "update_configs" THEN "inner_except" ELSE "except"

\* main(): "if options.test"
DryRun(opts) == opts.test

\* main(): "if options.reboot" after update_system
WantsReboot_always(opts) == TRUE

WantsReboot(opts) == opts.reboot

\* restart_service: "if tries == 0"
ServiceExhausted_negative(t) == t < 0

ServiceExhausted(t) == t = 0

\* do_salt_call: "if not ret[target][SALT_RETURN_KEY]" lets data through
HasData_any(reply) == TRUE

HasData(reply) == reply.data

Bump(f, i) == [f EXCEPT ![i] = @ + 1]

Sent(c, i, names) == [c EXCEPT ![i] = @ \cup names]

\* ------------------------------------------------------------------ Init
Init ==
    /\ options \in [action : Actions, reboot : BOOLEAN, use_ssh : BOOLEAN,
                    test : BOOLEAN, minions_given : BOOLEAN]
    /\ is_root \in BOOLEAN
    /\ IF options.minions_given
       THEN \E n \in 1..MaxNodes : minions = [i \in 1..n |-> i]
       ELSE minions = <<>>
    /\ pc = "main"
    /\ exitStatus = -1
    /\ pingRet = <<>>
    /\ all_nodes_up = [ok |-> FALSE, failed |-> {}]
    /\ idx = 0
    /\ tries = MainTries
    /\ rsTries = ServiceTries
    /\ timeout = RebootTimeout
    /\ uptime_before_reboot = 0
    /\ output = FalseOutput
    /\ rhResult = "none"
    /\ polls = 0
    /\ notYet = 0
    /\ invocations = [i \in NodeIds |-> 0]
    /\ restarts = [i \in NodeIds |-> 0]
    /\ reboots = [i \in NodeIds |-> 0]
    /\ cmds = [i \in NodeIds |-> {}]
    /\ execOk = <<>>
    /\ run_status = "none"
    /\ ret_data = [shape |-> "list", states |-> <<>>]
    /\ failed_state = 0
    /\ done = {}

\* --------------------------------------------------------------- actions

\* main(): without root permissions the script exits with status 1
Main_NotRoot ==
    /\ pc = "main"
    /\ ~is_root
    /\ pc' = "exit"
    /\ exitStatus' = 1
    /\ UNCHANGED <<options, is_root, run_status, ret_data, failed_state, minions, pingRet, all_nodes_up, idx, tries,
                   rsTries, timeout, uptime_before_reboot, output, rhResult, polls,
                   notYet, invocations, restarts, reboots, cmds, execOk, done>>

\* main(): without -n options.minions is None, and options.minions.split
\* raises AttributeError; nothing catches it and the process ends with
\* status 1
Main_NoMinions ==
    /\ pc = "main"
    /\ is_root
    /\ ~options.minions_given
    /\ pc' = "exit"
    /\ exitStatus' = 1
    /\ UNCHANGED <<options, is_root, run_status, ret_data, failed_state, minions,
                   pingRet, all_nodes_up, idx, tries, rsTries, timeout,
                   uptime_before_reboot, output, rhResult, polls, notYet,
                   invocations, restarts, reboots, cmds, execOk, done>>

\* main(): options.test lists the minions and exits with status 0
Main_Test ==
    /\ pc = "main"
    /\ is_root
    /\ options.minions_given
    /\ DryRun(options)
    /\ pc' = "exit"
    /\ exitStatus' = 0
    /\ UNCHANGED <<options, is_root, run_status, ret_data, failed_state, minions, pingRet, all_nodes_up, idx, tries, rsTries,
                   timeout, uptime_before_reboot, output, rhResult, polls,
                   notYet, invocations, restarts, reboots, cmds, execOk, done>>

\* main(): the connectivity gate. One test.ping goes to the whole list; any
\* minion reported False ends the run with status 1.
Main_Ping ==
    /\ pc = "main"
    /\ is_root
    /\ options.minions_given
    /\ ~DryRun(options)
    /\ \E ret \in [DOMAIN minions -> BOOLEAN] :
        /\ pingRet' = ret
        /\ all_nodes_up' = ping_all_nodes(ret)
        /\ IF GateOpen(ping_all_nodes(ret))
           THEN pc' = "for" /\ exitStatus' = exitStatus
           ELSE pc' = "exit" /\ exitStatus' = 1
    /\ UNCHANGED <<options, is_root, run_status, ret_data, failed_state, minions, idx, tries, rsTries, timeout,
                   uptime_before_reboot, output, rhResult, polls, notYet,
                   invocations, restarts, reboots, cmds, execOk, done>>

\* main(): "for minion in minions" takes the next minion; tries = 3
Main_NextMinion ==
    /\ pc = "for"
    /\ idx < Len(minions)
    /\ idx' = idx + 1
    /\ tries' = MainTries
    /\ execOk' = <<>>
    /\ pc' = "while"
    /\ UNCHANGED <<options, is_root, run_status, ret_data, failed_state, minions, exitStatus, pingRet, all_nodes_up, rsTries,
                   timeout, uptime_before_reboot, output, rhResult, polls,
                   notYet, invocations, restarts, reboots, cmds, done>>

\* main(): the list is exhausted; the script logs the run time and ends
Main_Finished ==
    /\ pc = "for"
    /\ idx = Len(minions)
    /\ pc' = "exit"
    /\ exitStatus' = 0
    /\ UNCHANGED <<options, is_root, run_status, ret_data, failed_state, minions, pingRet, all_nodes_up, idx, tries, rsTries,
                   timeout, uptime_before_reboot, output, rhResult, polls,
                   notYet, invocations, restarts, reboots, cmds, execOk, done>>

\* main(): one pass of "while not success" starts the handler of the action
Main_Dispatch ==
    /\ pc = "while"
    /\ invocations' = Bump(invocations, idx)
    /\ run_status' = "none"
    \* nothing is left of the restart_host call of an earlier attempt
    /\ rhResult' = "none"
    /\ timeout' = RebootTimeout
    /\ uptime_before_reboot' = 0
    /\ output' = FalseOutput
    /\ polls' = 0
    /\ notYet' = 0
    /\ pc' = CASE options.action = "update_configs" -> "update_configs"
               [] options.action = "reboot_host" -> "restart_host"
               [] options.action = "update_system" -> "update_system"
    /\ UNCHANGED <<options, is_root, ret_data, failed_state, minions, exitStatus,
                   pingRet, all_nodes_up, idx, tries, rsTries, restarts, reboots,
                   cmds, execOk, done>>

\* update_configs(node): state.sls, then check_salt_run_status
UpdateConfigs_nocheck ==
    /\ pc = "update_configs"
    /\ cmds' = Sent(cmds, idx, {"state.sls"})
    /\ \E payload \in Payloads :
        run_status' = Verdict(check_salt_run_status(payload))
    /\ pc' = "restart_service"
    /\ rsTries' = ServiceTries
    /\ UNCHANGED <<options, is_root, ret_data, failed_state, minions, exitStatus,
                   pingRet, all_nodes_up, idx, tries, timeout,
                   uptime_before_reboot, output, rhResult, polls, notYet,
                   invocations, restarts, reboots, execOk, done>>

UpdateConfigs ==
    /\ pc = "update_configs"
    /\ cmds' = Sent(cmds, idx, {"state.sls"})
    /\ \E payload \in Payloads :
        /\ run_status' = Verdict(check_salt_run_status(payload))
        /\ IF check_salt_run_status(payload)
           THEN /\ pc' = "restart_service"
                /\ rsTries' = ServiceTries
                /\ execOk' = execOk
           ELSE /\ pc' = Catch(options.action)
                /\ rsTries' = rsTries
                /\ execOk' = Append(execOk, FALSE)
    /\ UNCHANGED <<options, is_root, ret_data, failed_state, minions, exitStatus, pingRet, all_nodes_up, idx, tries,
                   timeout, uptime_before_reboot, output, rhResult, polls, notYet,
                   invocations, restarts, reboots, done>>

\* restart_service(node): one pass of its loop, service.restart followed by
\* service.status
RestartService ==
    /\ pc = "restart_service"
    /\ cmds' = Sent(cmds, idx, {"service.restart", "service.status"})
    /\ restarts' = Bump(restarts, idx)
    /\ \E status \in BOOLEAN :
        IF ~status
        THEN /\ rsTries' = rsTries - 1
             /\ IF ServiceExhausted(rsTries - 1)
                THEN pc' = Catch(options.action) /\ execOk' = Append(execOk, FALSE)
                ELSE pc' = "restart_service" /\ execOk' = execOk
        ELSE /\ rsTries' = rsTries
             /\ pc' = "success"
             /\ execOk' = Append(execOk, TRUE)
    /\ UNCHANGED <<options, is_root, run_status, ret_data, failed_state, minions, exitStatus, pingRet, all_nodes_up, idx, tries,
                   timeout, uptime_before_reboot, output, rhResult, polls, notYet,
                   invocations, reboots, done>>

\* update_system(node): pkg.upgrade, then check_salt_run_status; back in
\* main() the reboot flag selects restart_host
UpdateSystem ==
    /\ pc = "update_system"
    /\ cmds' = Sent(cmds, idx, {"pkg.upgrade"})
    /\ \E payload \in Payloads :
        /\ run_status' = Verdict(check_salt_run_status(payload))
        /\ IF check_salt_run_status(payload)
           THEN IF WantsReboot(options)
                THEN pc' = "restart_host" /\ execOk' = execOk
                ELSE pc' = "wait_for_es_service" /\ execOk' = Append(execOk, TRUE)
           ELSE pc' = "except" /\ execOk' = Append(execOk, FALSE)
    /\ UNCHANGED <<options, is_root, ret_data, failed_state, minions, exitStatus, pingRet, all_nodes_up, idx, tries,
                   rsTries, timeout, uptime_before_reboot, output, rhResult, polls,
                   notYet, invocations, restarts, reboots, done>>

\* restart_host(node): timeout = 300, then the baseline uptime is read with
\* do_salt_call, which raises when the reply carries no data
RestartHost_Baseline ==
    /\ pc = "restart_host"
    /\ timeout' = RebootTimeout
    /\ polls' = 0
    /\ notYet' = 0
    /\ cmds' = Sent(cmds, idx, {"status.uptime"})
    /\ \E reply \in BaselineReplies :
        /\ rhResult' = IF reply.data THEN "running" ELSE "nobaseline"
        /\ IF HasData(reply)
           THEN /\ uptime_before_reboot' = reply.seconds
                /\ pc' = "reboot"
                /\ execOk' = execOk
           ELSE /\ uptime_before_reboot' = uptime_before_reboot
                /\ pc' = "except"
                /\ execOk' = Append(execOk, FALSE)
    /\ UNCHANGED <<options, is_root, run_status, ret_data, failed_state, minions, exitStatus, pingRet, all_nodes_up, idx, tries,
                   rsTries, output, invocations, restarts, reboots, done>>

\* restart_host(node): system.reboot is sent
RestartHost_Reboot ==
    /\ pc = "reboot"
    /\ cmds' = Sent(cmds, idx, {"system.reboot"})
    /\ reboots' = Bump(reboots, idx)
    /\ pc' = "poll"
    /\ UNCHANGED <<options, is_root, run_status, ret_data, failed_state, minions, exitStatus, pingRet, all_nodes_up, idx, tries,
                   rsTries, timeout, uptime_before_reboot, output, rhResult, polls,
                   notYet, invocations, restarts, execOk, done>>

\* restart_host(node): one pass of "while timeout > 0"
RestartHost_Poll ==
    /\ pc = "poll"
    /\ timeout > 0
    /\ \E out \in PollOutputs :
        /\ output' = out
        /\ polls' = polls + 1
        /\ IF options.use_ssh /\ ~out.resp
           THEN \* False has no .get: the condition itself raises
                /\ pc' = "except"
                /\ rhResult' = "error"
                /\ execOk' = Append(execOk, FALSE)
                /\ UNCHANGED <<timeout, notYet>>
           ELSE IF NoResponse(options.use_ssh, out)
           THEN /\ timeout' = Tick(timeout)
                /\ pc' = "poll"
                /\ UNCHANGED <<rhResult, execOk, notYet>>
           ELSE IF Rebooted(out.seconds, uptime_before_reboot)
           THEN /\ pc' = "wait_for_es_service"
                /\ rhResult' = "confirmed"
                /\ execOk' = Append(execOk, TRUE)
                /\ UNCHANGED <<timeout, notYet>>
           ELSE /\ notYet < MaxNotYet
                /\ notYet' = notYet + 1
                /\ pc' = "poll"
                /\ UNCHANGED <<timeout, rhResult, execOk>>
    /\ cmds' = Sent(cmds, idx, {"status.uptime"})
    /\ UNCHANGED <<options, is_root, run_status, ret_data, failed_state, minions, exitStatus, pingRet, all_nodes_up, idx, tries,
                   rsTries, uptime_before_reboot, invocations, restarts, reboots,
                   done>>

\* restart_host(node): the loop ran out of timeout; the function raises
RestartHost_Timeout ==
    /\ pc = "poll"
    /\ ~(timeout > 0)
    /\ pc' = "except"
    /\ rhResult' = "timeout"
    /\ execOk' = Append(execOk, FALSE)
    /\ UNCHANGED <<options, is_root, run_status, ret_data, failed_state, minions, exitStatus, pingRet, all_nodes_up, idx, tries,
                   rsTries, timeout, uptime_before_reboot, output, polls, notYet,
                   invocations, restarts, reboots, cmds, done>>

\* main(): wait_for_es_service is called but defined nowhere, so the call
\* raises NameError, an Exception like any other
WaitForEsService ==
    /\ pc = "wait_for_es_service"
    /\ pc' = "except"
    /\ UNCHANGED <<options, is_root, run_status, ret_data, failed_state, minions, exitStatus, pingRet, all_nodes_up, idx, tries,
                   rsTries, timeout, uptime_before_reboot, output, rhResult, polls,
                   notYet, invocations, restarts, reboots, cmds, execOk, done>>

\* main(): the except clause inside the update_configs branch logs and exits
Main_InnerExcept_reraise ==
    /\ pc = "inner_except"
    /\ pc' = "except"
    /\ UNCHANGED <<options, is_root, run_status, ret_data, failed_state, minions, exitStatus, pingRet, all_nodes_up, idx, tries,
                   rsTries, timeout, uptime_before_reboot, output, rhResult, polls,
                   notYet, invocations, restarts, reboots, cmds, execOk, done>>

Main_InnerExcept ==
    /\ pc = "inner_except"
    /\ pc' = "exit"
    /\ exitStatus' = 1
    /\ UNCHANGED <<options, is_root, run_status, ret_data, failed_state, minions, pingRet, all_nodes_up, idx, tries, rsTries,
                   timeout, uptime_before_reboot, output, rhResult, polls,
                   notYet, invocations, restarts, reboots, cmds, execOk, done>>

\* main(): the except clause of the retry loop
Main_Except_skip ==
    /\ pc = "except"
    /\ tries' = tries - 1
    /\ cmds' = IF options.use_ssh THEN Sent(cmds, idx, {"test.ping"}) ELSE cmds
    /\ pc' = IF Exhausted(tries - 1) THEN "for" ELSE "while"
    /\ UNCHANGED <<options, is_root, run_status, ret_data, failed_state, minions, exitStatus, pingRet, all_nodes_up, idx,
                   rsTries, timeout, uptime_before_reboot, output, rhResult, polls,
                   notYet, invocations, restarts, reboots, execOk, done>>

Main_Except ==
    /\ pc = "except"
    /\ tries' = tries - 1
    /\ cmds' = IF options.use_ssh THEN Sent(cmds, idx, {"test.ping"}) ELSE cmds
    /\ IF Exhausted(tries - 1)
       THEN pc' = "exit" /\ exitStatus' = 1
       ELSE pc' = "while" /\ exitStatus' = exitStatus
    /\ UNCHANGED <<options, is_root, run_status, ret_data, failed_state, minions, pingRet, all_nodes_up, idx, rsTries,
                   timeout, uptime_before_reboot, output, rhResult, polls, notYet,
                   invocations, restarts, reboots, execOk, done>>

\* main(): success = True ends the retry loop of the minion
Main_Success ==
    /\ pc = "success"
    /\ done' = done \cup {idx}
    /\ pc' = "for"
    /\ UNCHANGED <<options, is_root, run_status, ret_data, failed_state, minions, exitStatus, pingRet, all_nodes_up, idx, tries,
                   rsTries, timeout, uptime_before_reboot, output, rhResult, polls,
                   notYet, invocations, restarts, reboots, cmds, execOk>>

Next ==
    \/ Main_NotRoot
    \/ Main_NoMinions
    \/ Main_Test
    \/ Main_Ping
    \/ Main_NextMinion
    \/ Main_Finished
    \/ Main_Dispatch
    \/ UpdateConfigs
    \/ RestartService
    \/ UpdateSystem
    \/ RestartHost_Baseline
    \/ RestartHost_Reboot
    \/ RestartHost_Poll
    \/ RestartHost_Timeout
    \/ WaitForEsService
    \/ Main_InnerExcept
    \/ Main_Except
    \/ Main_Success

Spec == Init /\ [][Next]_vars

\* ---------------------------------------- check_salt_run_status on its own

\* One call of check_salt_run_status on the return data of one minion, for
\* every payload; the rest of the script stands still.
InterpInit ==
    /\ options \in [action : {"update_configs"}, reboot : {FALSE},
                    use_ssh : BOOLEAN, test : {FALSE}, minions_given : {TRUE}]
    /\ is_root = TRUE
    /\ minions = <<1>>
    /\ pc = "check_salt_run_status"
    /\ exitStatus = -1
    /\ pingRet = <<>>
    /\ all_nodes_up = [ok |-> FALSE, failed |-> {}]
    /\ idx = 0
    /\ tries = MainTries
    /\ rsTries = ServiceTries
    /\ timeout = RebootTimeout
    /\ uptime_before_reboot = 0
    /\ output = FalseOutput
    /\ rhResult = "none"
    /\ polls = 0
    /\ notYet = 0
    /\ invocations = [i \in NodeIds |-> 0]
    /\ restarts = [i \in NodeIds |-> 0]
    /\ reboots = [i \in NodeIds |-> 0]
    /\ cmds = [i \in NodeIds |-> {}]
    /\ execOk = <<>>
    /\ run_status = "none"
    /\ ret_data \in Payloads
    /\ failed_state = 0
    /\ done = {}

\* check_salt_run_status(ret_data): the value returned and the state named
CheckSaltRunStatus ==
    /\ pc = "check_salt_run_status"
    /\ run_status' = Verdict(check_salt_run_status(ret_data))
    /\ failed_state' \in NamedStates(ret_data)
    /\ pc' = "returned"
    /\ UNCHANGED <<options, is_root, ret_data, minions, exitStatus, pingRet,
                   all_nodes_up, idx, tries, rsTries, timeout,
                   uptime_before_reboot, output, rhResult, polls, notYet,
                   invocations, restarts, reboots, cmds, execOk, done>>

InterpNext == CheckSaltRunStatus

SpecInterp == InterpInit /\ [][InterpNext]_vars

TypeOK ==
    /\ pc \in {"main", "for", "while", "update_configs", "restart_service",
               "update_system", "restart_host", "reboot", "poll",
               "wait_for_es_service", "inner_except", "except", "success", "exit",
               "check_salt_run_status", "returned"}
    /\ exitStatus \in {-1, 0, 1}
    /\ idx \in 0..Len(minions)
    /\ output \in PollOutputs

\* ------------------------------------------------------------ properties

\* No handler has been started and no command has gone to any minion
NothingIssued == \A i \in NodeIds : cmds[i] = {} /\ invocations[i] = 0

\* The run was stopped with exit status 1
Aborted == pc = "exit" /\ exitStatus = 1

\* The last poll of restart_host answered, in the sense of its transport
\* mode, with an uptime below the baseline
PollShowsReboot ==
    /\ output.resp
    /\ options.use_ssh => output.retcode = 0
    /\ output.seconds < uptime_before_reboot

\* C1: the whole minion list is pinged before any handler runs, and when the
\* ping reports a minion as not responding, no command is ever sent to any
\* minion and the run ends with exit status 1.
C1_ConnectivityGate ==
    /\ ~NothingIssued =>
         /\ DOMAIN pingRet = DOMAIN minions
         /\ \A i \in DOMAIN pingRet : pingRet[i]
    /\ (\E i \in DOMAIN pingRet : ~pingRet[i]) => Aborted /\ NothingIssued

C1_Witness ==
    /\ Len(minions) >= 2
    /\ \E i \in DOMAIN pingRet : ~pingRet[i]
    /\ \E i \in DOMAIN pingRet : pingRet[i]
    /\ Aborted
    /\ all_nodes_up.failed = {i \in DOMAIN minions : ~pingRet[i]}

\* C2: minions are handled in list order, one at a time: a minion's handler
\* starts only after every earlier minion has finished successfully, and
\* when the run was aborted no command has gone to a minion after the one
\* that failed, which itself is not finished.
C2_SequentialOrder ==
    /\ \A i \in NodeIds :
         (invocations[i] > 0 \/ cmds[i] # {}) =>
             i <= idx /\ \A j \in 1..(i - 1) : j \in done
    /\ \A i \in done : i <= idx /\ invocations[i] > 0
    /\ (Aborted /\ idx > 0) =>
         /\ idx \notin done
         /\ \A j \in NodeIds : j > idx => cmds[j] = {} /\ invocations[j] = 0

C2_Witness ==
    /\ Len(minions) >= 2
    /\ Aborted
    /\ idx = 1
    /\ invocations[1] > 0
    /\ cmds[2] = {}

C5_Recovery ==
    (/\ execOk = <<FALSE, FALSE, TRUE>>
     /\ pc \in {"for", "exit"}) =>
        /\ idx \in done
        /\ invocations[idx] = MainTries
        /\ ~Aborted

C7_RebootConfirmed ==
    /\ rhResult = "confirmed" => polls >= 1 /\ PollShowsReboot
    /\ (pc = "poll" /\ polls >= 1) => ~PollShowsReboot

C7_Witness ==
    /\ rhResult = "confirmed"
    /\ uptime_before_reboot = 1200
    /\ output.seconds = 50
    /\ polls = 3
    /\ notYet = 2

\* C8: every poll of restart_host, also one that answers with an uptime not
\* below the baseline, takes period off timeout, so the loop ends after 30
\* polls at the latest.
C8_EveryPollConsumes ==
    /\ pc = "poll" => timeout = RebootTimeout - RebootPeriod * polls
    /\ polls <= RebootTimeout \div RebootPeriod

\* C9: a poll without response takes period off timeout; timeout stays in
\* 0..300; and when no poll gets a response restart_host raises after
\* exactly 30 polls.
C9_NoResponseTimeout ==
    /\ timeout \in 0..RebootTimeout
    /\ (pc = "poll" \/ rhResult = "timeout") =>
           timeout = RebootTimeout - RebootPeriod * (polls - notYet)
    /\ (pc = "poll" /\ polls >= 1 /\ (~output.resp \/ (options.use_ssh /\ output.retcode # 0))) =>
           timeout < RebootTimeout
    /\ (rhResult = "timeout" /\ notYet = 0) => polls = 30 /\ timeout = 0
    /\ (pc = "poll" /\ notYet = 0 /\ polls = 30) => timeout = 0

C9_Witness ==
    /\ rhResult = "timeout"
    /\ pc = "except"
    /\ polls = 30
    /\ notYet = 0

\* C10: when the ping succeeds and every client call of every attempt
\* succeeds, the run ends with exit status 0, all minions finished and each
\* handler invoked once.
C10_HappyPath ==
    (/\ pc = "exit"
     /\ all_nodes_up.ok
     /\ \A k \in DOMAIN execOk : execOk[k]
     /\ \A i \in 1..(idx - 1) : invocations[i] = 1) =>
        /\ exitStatus = 0
        /\ done = DOMAIN minions
        /\ \A i \in DOMAIN minions : invocations[i] = 1

\* check_salt_run_status has returned
Returned == pc = "returned"

\* Every state of the payload has a result that is exactly True
AllResultsTrue ==
    \A st \in DOMAIN ret_data.states : ret_data.states[st].result = "True"

\* C11: for every payload that is a list, check_salt_run_status returns
\* False, and it names no state.
C11_ListIsCompileFailure ==
    (Returned /\ ret_data.shape = "list") =>
        run_status = "False" /\ failed_state = 0

C11_Witness ==
    /\ Returned
    /\ ret_data.shape = "list"
    /\ run_status = "False"

\* C12: for every payload that is a mapping whose states all have the
\* result True, check_salt_run_status returns True.
C12_AllTrueIsSuccess ==
    (Returned /\ ret_data.shape = "dict" /\ AllResultsTrue) =>
        run_status = "True"

C12_Witness ==
    /\ Returned
    /\ ret_data.shape = "dict"
    /\ Cardinality(DOMAIN ret_data.states) = 2
    /\ AllResultsTrue
    /\ run_status = "True"

\* C13: for every payload that is a mapping with a state whose result is not
\* exactly True, check_salt_run_status returns False and the state it names
\* as failed is one whose result is not exactly True.
C13_FailureNamesFailedState ==
    (Returned /\ ret_data.shape = "dict" /\ ~AllResultsTrue) =>
        /\ run_status = "False"
        /\ failed_state \in DOMAIN ret_data.states
        /\ ret_data.states[failed_state].result # "True"

\* C14: when the aggregate checker fails a mapping and the scan of
\* check_salt_run_status stops at no state, the function returns True; and
\* a result the aggregate checker failed is turned into True on no other
\* path.
C14_LenientFallback ==
    Returned =>
        /\ (~state_checker(ret_data) /\ ret_data.shape = "dict" /\ failed_state = 0) =>
               run_status = "True"
        /\ (~state_checker(ret_data) /\ run_status = "True") =>
               /\ ret_data.shape = "dict"
               /\ failed_state = 0
               /\ \A st \in DOMAIN ret_data.states : ret_data.states[st].retkey = "True"

C14_Witness ==
    /\ Returned
    /\ ret_data.shape = "dict"
    /\ \E st \in DOMAIN ret_data.states : ret_data.states[st].result = "False"
    /\ ~state_checker(ret_data)
    /\ failed_state = 0
    /\ run_status = "True"

\* C15: after the ping, ping_all_nodes has returned True exactly when every
\* minion of the list answered, and otherwise exactly the minions that did
\* not answer.
C15_PingResult ==
    pingRet # <<>> =>
        /\ DOMAIN pingRet = DOMAIN minions
        /\ all_nodes_up.ok <=> \A i \in DOMAIN minions : pingRet[i]
        /\ ~all_nodes_up.ok =>
               all_nodes_up.failed = {i \in DOMAIN minions : ~pingRet[i]}

C15_Witness ==
    /\ Len(minions) >= 2
    /\ pingRet # <<>>
    /\ ~all_nodes_up.ok
    /\ all_nodes_up.failed = {2}

\* C16: with the test flag set, a run started as root ends with exit status
\* 0, and no run with the flag sends the ping or any command, starts a
\* handler or takes up a minion.
C16_DryRun ==
    options.test =>
        /\ (pc = "exit" /\ is_root) => exitStatus = 0
        /\ pingRet = <<>>
        /\ NothingIssued
        /\ idx = 0
        /\ done = {}

\* C17: restart_service counts its own 3 attempts: each pass sends one
\* restart, the call succeeds at the first pass whose status check is true
\* and raises after exactly 3 restarts, never sending a 4th, and no pass
\* changes the budget of main().
C17_ServiceRetries ==
    /\ [](options.action = "update_configs" =>
            /\ rsTries \in 0..ServiceTries
            /\ \A i \in NodeIds : restarts[i] <= ServiceTries
            /\ pc = "restart_service" =>
                   rsTries >= 1 /\ restarts[idx] = ServiceTries - rsTries
            /\ pc = "success" => restarts[idx] = ServiceTries - rsTries + 1
            /\ (pc = "inner_except" /\ run_status = "True") =>
                   rsTries = 0 /\ restarts[idx] = ServiceTries)
    /\ [][pc = "restart_service" =>
            /\ tries' = tries
            /\ restarts'[idx] = restarts[idx] + 1]_vars

C17_Witness ==
    /\ pc = "inner_except"
    /\ run_status = "True"
    /\ restarts[idx] = ServiceTries
    /\ rsTries = 0
    /\ tries = MainTries

\* C18: under update_configs a service restart goes to a minion only after
\* its configuration apply was judged successful, and when the apply is
\* judged failed the attempt ends with no restart sent to the minion.
C18_FailFast ==
    options.action = "update_configs" =>
        /\ \A i \in NodeIds :
               (restarts[i] > 0 \/ "service.restart" \in cmds[i]) =>
                   /\ "state.sls" \in cmds[i]
                   /\ i = idx => run_status = "True"
        /\ pc = "restart_service" => run_status = "True"
        /\ run_status = "False" =>
               /\ pc \in {"inner_except", "exit"}
               /\ restarts[idx] = 0
               /\ "service.restart" \notin cmds[idx]

C18_Witness ==
    /\ options.action = "update_configs"
    /\ run_status = "False"
    /\ pc = "exit"
    /\ idx > 0
    /\ "state.sls" \in cmds[idx]
    /\ restarts[idx] = 0

\* C19: under update_system a reboot is sent only with the reboot flag set
\* and after the package upgrade of the same attempt was judged successful;
\* without the flag, or after a failed upgrade, the attempt sends none.
C19_RebootAfterUpgrade ==
    /\ [](options.action = "update_system" =>
            /\ pc \in {"restart_host", "reboot", "poll"} =>
                   options.reboot /\ run_status = "True"
            /\ ~options.reboot => \A i \in NodeIds : reboots[i] = 0
            /\ \A i \in NodeIds : reboots[i] > 0 => "pkg.upgrade" \in cmds[i])
    /\ [][(options.action = "update_system" /\ reboots' # reboots) =>
            options.reboot /\ run_status = "True"]_vars

C19_Witness ==
    /\ options.action = "update_system"
    /\ options.reboot
    /\ idx > 0
    /\ reboots[idx] = 1
    /\ run_status = "True"
    /\ pc = "poll"

\* C20: every reboot command follows, within the same restart_host call, a
\* status.uptime query that returned data; when that query returns no data
\* the attempt fails with no reboot sent and no poll made.
C20_BaselineBeforeReboot ==
    /\ [](/\ pc \in {"reboot", "poll"} =>
                /\ rhResult = "running"
                /\ uptime_before_reboot \in Uptimes
                /\ "status.uptime" \in cmds[idx]
          /\ rhResult = "nobaseline" =>
                /\ pc \in {"except", "while", "exit"}
                /\ polls = 0)
    /\ [][/\ reboots' # reboots => rhResult = "running"
          /\ rhResult = "nobaseline" => reboots' = reboots /\ polls' = polls]_vars

C20_Witness ==
    /\ rhResult = "nobaseline"
    /\ pc = "except"
    /\ idx > 0
    /\ reboots[idx] = 0
    /\ "system.reboot" \notin cmds[idx]
====
